---- MODULE Spec2Model ----
(***************************************************************************)
(* A model of the yoots library.                                           *)
(*                                                                         *)
(* yoots.textfile: the TextFile handle (format resolution at               *)
(* construction), its read()/write(data, force) dispatch, the overwrite    *)
(* confirmation loop confirm_yn_n, and the csv / ini / json / text / yaml  *)
(* writers together with the csv and text readers (Spec, CtorSpec).        *)
(* yoots.prompt: the loops of confirm_yn, pick_one and pick_many           *)
(* (PromptSpec).  yoots.moratorium: the holiday table, is_holiday and      *)
(* is_eom (MoratoriumSpec).  The three modules share no state; each has    *)
(* its own variables and its own specification.                            *)
(*                                                                         *)
(* Text (file names, file contents, user replies, Python str values) is a  *)
(* sequence of one-character strings, so that serialising and parsing are  *)
(* computed character by character.  A file's size in bytes is the length  *)
(* of its content (all characters used are ASCII).                         *)
(*                                                                         *)
(* raw_input(msg) is taken as what the code means by it: it returns one    *)
(* line typed by the user.  The csv, json and configparser modules and     *)
(* yaml.dump are modelled by what they write for the values of the model   *)
(* (ints, strs without control characters, lists and str-keyed dicts); the *)
(* ini, json and yaml parsers are not modelled.                            *)
(***************************************************************************)
EXTENDS Integers, Sequences, FiniteSets, TLC

\* The most replies one call of a prompting function (confirm_yn_n,
\* confirm_yn, pick_one, pick_many) reads in the model.
MaxReplies == 3

(***************************************************************************)
(* Python values                                                           *)
(***************************************************************************)
VNone == [t |-> "none"]
VInt(n) == [t |-> "int", n |-> n]
VStr(s) == [t |-> "str", s |-> s]
VList(xs) == [t |-> "list", xs |-> xs]
\* A dict is its items in insertion order, each item a pair <<key, value>>.
VDict(kv) == [t |-> "dict", kv |-> kv]

\* An optional argument or attribute: given, or left out / never assigned.
Some(x) == [some |-> TRUE, v |-> x]
Nothing == [some |-> FALSE, v |-> <<>>]

(***************************************************************************)
(* Text helpers                                                            *)
(***************************************************************************)
UpperCase == <<"A","B","C","D","E","F","G","H","I","J","K","L","M",
               "N","O","P","Q","R","S","T","U","V","W","X","Y","Z">>
LowerCase == <<"a","b","c","d","e","f","g","h","i","j","k","l","m",
               "n","o","p","q","r","s","t","u","v","w","x","y","z">>

\* str.lower() on one character
LowerChar(c) ==
    IF \E i \in 1..Len(UpperCase) : UpperCase[i] = c
    THEN LowerCase[CHOOSE i \in 1..Len(UpperCase) : UpperCase[i] = c]
    ELSE c

\* str.lower()
Lower(s) == [i \in 1..Len(s) |-> LowerChar(s[i])]

\* str.rfind(c), 1-based; 0 when c does not occur (Python's -1)
RFind(s, c) ==
    IF \E i \in 1..Len(s) : s[i] = c
    THEN CHOOSE i \in 1..Len(s) : s[i] = c /\ \A j \in (i+1)..Len(s) : s[j] # c
    ELSE 0

\* str.strip('.'): drops every leading and trailing dot
StripDots(s) ==
    IF \A i \in 1..Len(s) : s[i] = "."
    THEN <<>>
    ELSE LET first == CHOOSE i \in 1..Len(s) :
                          s[i] # "." /\ \A j \in 1..(i-1) : s[j] = "."
             last  == CHOOSE i \in 1..Len(s) :
                          s[i] # "." /\ \A j \in (i+1)..Len(s) : s[j] = "."
         IN  SubSeq(s, first, last)

\* os.path.splitext(p)[-1]: the text from the last dot of the last path
\* component on, provided a character other than a dot precedes that dot in
\* the component; otherwise the empty text.
SplitExt(p) ==
    LET sepIndex == RFind(p, "/")
        dotIndex == RFind(p, ".")
    IN  IF dotIndex > sepIndex
           /\ \E i \in (sepIndex+1)..(dotIndex-1) : p[i] # "."
        THEN SubSeq(p, dotIndex, Len(p))
        ELSE <<>>

(***************************************************************************)
(* TextFile.__init__                                                       *)
(***************************************************************************)
CSV  == <<"c","s","v">>
INI  == <<"i","n","i">>
JSON == <<"j","s","o","n">>
TXT  == <<"t","x","t">>
YAML == <<"y","a","m","l">>
TEXT == <<"t","e","x","t">>
BOGUS == <<"b","o","g","u","s">>
EMPTY == <<>>

\* the tuple the constructor's assertion tests membership in
SupportedFtypes == {CSV, INI, JSON, TXT, EMPTY, YAML}

\* (the extension taken as it is spelt, not lower-cased)
ExtensionFtype_NoLower(fname) == StripDots(SplitExt(fname))

\* the format computed from the file name when no override is given
ExtensionFtype(fname) == Lower(StripDots(SplitExt(fname)))

\* self.ftype after the constructor's if-statement: assigned from the
\* extension when ftype is None, and not assigned at all otherwise.
FtypeAttr(fname, ftype) ==
    IF ~ftype.some THEN Some(ExtensionFtype(fname)) ELSE Nothing

\* How the constructor ends: reading the unassigned attribute raises
\* AttributeError, a failed assertion raises AssertionError.
InitOutcome(fname, ftype) ==
    LET attr == FtypeAttr(fname, ftype)
    IN  IF ~attr.some THEN "AttributeError"
        ELSE IF attr.v \in SupportedFtypes THEN "ok"
        ELSE "AssertionError"

(***************************************************************************)
(* str() and repr() of a value                                             *)
(***************************************************************************)
Digits == <<"0","1","2","3","4","5","6","7","8","9">>

RECURSIVE IntStr(_)
\* str(n) of an int n >= 0
IntStr(n) ==
    IF n < 10 THEN <<Digits[n + 1]>>
    ELSE IntStr(n \div 10) \o <<Digits[(n % 10) + 1]>>

RECURSIVE Join(_, _)
\* sep.join(parts)
Join(parts, sep) ==
    IF parts = <<>> THEN <<>>
    ELSE IF Len(parts) = 1 THEN parts[1]
    ELSE parts[1] \o sep \o Join(Tail(parts), sep)

RECURSIVE Flatten(_)
\* the concatenation of a sequence of texts
Flatten(parts) ==
    IF parts = <<>> THEN <<>> ELSE parts[1] \o Flatten(Tail(parts))

RECURSIVE PyRepr(_)
\* repr(v).  The texts of the model hold no apostrophe, backslash or control
\* character, so a str is its characters between apostrophes.
PyRepr(v) ==
    CASE v.t = "none" -> <<"N","o","n","e">>
      [] v.t = "int"  -> IntStr(v.n)
      [] v.t = "str"  -> <<"'">> \o v.s \o <<"'">>
      [] v.t = "list" ->
            <<"[">> \o Join([i \in 1..Len(v.xs) |-> PyRepr(v.xs[i])], <<",", " ">>)
                    \o <<"]">>
      [] v.t = "dict" ->
            <<"{">> \o Join([i \in 1..Len(v.kv) |->
                                PyRepr(v.kv[i][1]) \o <<":", " ">> \o PyRepr(v.kv[i][2])],
                            <<",", " ">>)
                    \o <<"}">>

\* str(v): a str is itself, anything else is its repr
PyStr(v) == IF v.t = "str" THEN v.s ELSE PyRepr(v)

\* len(v) == 0 for the sized values: the empty payloads
IsEmptyValue(v) ==
    \/ v.t = "str"  /\ v.s = <<>>
    \/ v.t = "list" /\ v.xs = <<>>
    \/ v.t = "dict" /\ v.kv = <<>>

(***************************************************************************)
(* dict helpers                                                            *)
(***************************************************************************)
DictKeys(d) == [i \in 1..Len(d.kv) |-> d.kv[i][1]]

HasKey(kv, k) == \E i \in 1..Len(kv) : kv[i][1] = k

\* d.get(k, default)
DictGet(kv, k, default) ==
    IF HasKey(kv, k) THEN kv[CHOOSE i \in 1..Len(kv) : kv[i][1] = k][2]
    ELSE default

\* d[k] = v: replaces the value in place, or appends a new item
DictSet(kv, k, val) ==
    IF HasKey(kv, k)
    THEN [i \in 1..Len(kv) |-> IF kv[i][1] = k THEN <<k, val>> ELSE kv[i]]
    ELSE Append(kv, <<k, val>>)

(***************************************************************************)
(* The file at the handle's path                                           *)
(***************************************************************************)
Absent == [kind |-> "absent", content |-> <<>>]
Directory == [kind |-> "dir", content |-> <<>>]
File(content) == [kind |-> "file", content |-> content]

\* os.path.isfile
IsFile(d) == d.kind = "file"

\* os.path.getsize of a regular file
GetSize(d) == Len(d.content)

\* What a writer or reader reports: err is "ok" or the exception raised,
\* opened tells whether open() was reached, disk is the path afterwards and
\* value is what a reader returns.
Done(disk) == [err |-> "ok", opened |-> TRUE, disk |-> disk, value |-> VNone]
Raised(err, opened, disk) ==
    [err |-> err, opened |-> opened, disk |-> disk, value |-> VNone]
Returned(value, disk) ==
    [err |-> "ok", opened |-> TRUE, disk |-> disk, value |-> value]

\* (the file opened in mode 'a': the text is added to what the file holds)
OpenAndAppend(disk, text) ==
    IF disk.kind = "dir"
    THEN Raised("IsADirectoryError", TRUE, disk)
    ELSE Done(File(disk.content \o text))

\* with open(fname, 'w') as outfile: outfile.write(text).  Opening a
\* directory for writing raises IsADirectoryError; otherwise the file is
\* created or truncated and holds text on close.
OpenAndWrite(disk, text) ==
    IF disk.kind = "dir"
    THEN Raised("IsADirectoryError", TRUE, disk)
    ELSE Done(File(text))

(***************************************************************************)
(* write_csv: csv.DictWriter(fieldnames=keys, lineterminator='\n')         *)
(***************************************************************************)
NL == "\n"
QUOTE == "\""
COMMA == ","

\* the text csv writes for one field value: None is empty, a str is itself,
\* anything else is str(value)
CsvFieldText(v) == IF v.t = "none" THEN <<>> ELSE PyStr(v)

\* QUOTE_MINIMAL: a field is quoted when it holds the delimiter, the quote
\* character or a character of the line terminator
CsvNeedsQuote(s) == \E i \in 1..Len(s) : s[i] \in {COMMA, QUOTE, NL}

\* a quoted field: quote characters doubled, the whole between quotes
CsvQuote(s) ==
    <<QUOTE>> \o Flatten([i \in 1..Len(s) |->
                             IF s[i] = QUOTE THEN <<QUOTE, QUOTE>> ELSE <<s[i]>>])
              \o <<QUOTE>>

CsvField(s) == IF CsvNeedsQuote(s) THEN CsvQuote(s) ELSE s

\* one line: the fields joined by commas; a row of one empty field is
\* written as "" so that the line is not blank
CsvLine(fields) ==
    (IF Len(fields) = 1 /\ fields[1] = <<>>
     THEN <<QUOTE, QUOTE>>
     ELSE Join([i \in 1..Len(fields) |-> CsvField(fields[i])], <<COMMA>>))
    \o <<NL>>

\* DictWriter._dict_to_list with extrasaction='raise', restval='': "ok"
\* and the row's fields, or the exception the row raises
DictToList(keys, row) ==
    IF row.t # "dict" THEN [err |-> "AttributeError", fields |-> <<>>]
    ELSE IF \E i \in 1..Len(row.kv) :
                \A j \in 1..Len(keys) : keys[j] # row.kv[i][1]
    THEN [err |-> "ValueError", fields |-> <<>>]
    ELSE [err |-> "ok",
          fields |-> [j \in 1..Len(keys) |->
                        CsvFieldText(DictGet(row.kv, keys[j], VStr(<<>>)))]]

RECURSIVE WriteRows(_, _, _)
\* writer.writerows(fdata): the rows are written in order up to the first
\* row that raises; what was written before it stays in the file
WriteRows(keys, rows, text) ==
    IF rows = <<>> THEN [err |-> "ok", text |-> text]
    ELSE LET r == DictToList(keys, rows[1])
         IN  IF r.err # "ok" THEN [err |-> r.err, text |-> text]
             ELSE WriteRows(keys, Tail(rows), text \o CsvLine(r.fields))

\* the two assertions and the fdata[0] between them, before the file is
\* opened: "ok" or the exception
CsvShapeError(fdata) ==
    IF fdata.t # "list" THEN "AssertionError"
    ELSE IF fdata.xs = <<>> THEN "IndexError"
    ELSE IF fdata.xs[1].t # "dict" THEN "AssertionError"
    ELSE "ok"

\* (the file opened before the data is looked at)
write_csv_OpenFirst(disk, fdata) ==
    IF disk.kind = "dir" THEN Raised("IsADirectoryError", TRUE, disk)
    ELSE IF CsvShapeError(fdata) # "ok"
    THEN Raised(CsvShapeError(fdata), TRUE, File(<<>>))
    ELSE LET keys   == DictKeys(fdata.xs[1])
             header == CsvLine([j \in 1..Len(keys) |-> CsvFieldText(keys[j])])
             w      == WriteRows(keys, fdata.xs, header)
         IN  IF w.err = "ok" THEN Done(File(w.text))
             ELSE Raised(w.err, TRUE, File(w.text))

write_csv(disk, fdata) ==
    IF CsvShapeError(fdata) # "ok" THEN Raised(CsvShapeError(fdata), FALSE, disk)
    ELSE IF disk.kind = "dir" THEN Raised("IsADirectoryError", TRUE, disk)
    ELSE LET keys   == DictKeys(fdata.xs[1])
             header == CsvLine([j \in 1..Len(keys) |-> CsvFieldText(keys[j])])
             w      == WriteRows(keys, fdata.xs, header)
         IN  IF w.err = "ok" THEN Done(File(w.text))
             ELSE Raised(w.err, TRUE, File(w.text))

(***************************************************************************)
(* read_csv: csv.DictReader over the file                                  *)
(***************************************************************************)
RECURSIVE CsvParse(_, _, _, _, _, _)
\* csv.reader: the rows of text s, each a sequence of fields, read from
\* position i on in parser state st with the field and the row read so far.
\* A blank line is the row <<>>.
CsvParse(s, i, st, field, row, rows) ==
    IF i > Len(s)
    THEN IF st = "start_record" THEN rows ELSE Append(rows, Append(row, field))
    ELSE LET c == s[i] IN
      CASE st = "start_record" /\ c = NL ->
              CsvParse(s, i + 1, "start_record", <<>>, <<>>, Append(rows, <<>>))
        [] st \in {"start_record", "start_field"} /\ c = QUOTE ->
              CsvParse(s, i + 1, "in_quoted", <<>>, row, rows)
        [] st \in {"start_record", "start_field"} /\ c = COMMA ->
              CsvParse(s, i + 1, "start_field", <<>>, Append(row, <<>>), rows)
        [] st = "start_field" /\ c = NL ->
              CsvParse(s, i + 1, "start_record", <<>>, <<>>,
                       Append(rows, Append(row, <<>>)))
        [] st \in {"start_record", "start_field"} /\ c \notin {NL, QUOTE, COMMA} ->
              CsvParse(s, i + 1, "in_field", <<c>>, row, rows)
        [] st = "in_field" /\ c = NL ->
              CsvParse(s, i + 1, "start_record", <<>>, <<>>,
                       Append(rows, Append(row, field)))
        [] st = "in_field" /\ c = COMMA ->
              CsvParse(s, i + 1, "start_field", <<>>, Append(row, field), rows)
        [] st = "in_field" /\ c \notin {NL, COMMA} ->
              CsvParse(s, i + 1, "in_field", Append(field, c), row, rows)
        [] st = "in_quoted" /\ c = QUOTE ->
              CsvParse(s, i + 1, "quote_in_quoted", field, row, rows)
        [] st = "in_quoted" /\ c # QUOTE ->
              CsvParse(s, i + 1, "in_quoted", Append(field, c), row, rows)
        [] st = "quote_in_quoted" /\ c = QUOTE ->
              CsvParse(s, i + 1, "in_quoted", Append(field, QUOTE), row, rows)
        [] st = "quote_in_quoted" /\ c = COMMA ->
              CsvParse(s, i + 1, "start_field", <<>>, Append(row, field), rows)
        [] st = "quote_in_quoted" /\ c = NL ->
              CsvParse(s, i + 1, "start_record", <<>>, <<>>,
                       Append(rows, Append(row, field)))
        [] st = "quote_in_quoted" /\ c \notin {QUOTE, COMMA, NL} ->
              CsvParse(s, i + 1, "in_field", Append(field, c), row, rows)

CsvRows(text) == CsvParse(text, 1, "start_record", <<>>, <<>>, <<>>)

RECURSIVE ZipDict(_, _, _)
\* dict(zip(fieldnames, row))
ZipDict(fieldnames, row, kv) ==
    IF fieldnames = <<>> \/ row = <<>> THEN kv
    ELSE ZipDict(Tail(fieldnames), Tail(row),
                 DictSet(kv, VStr(fieldnames[1]), VStr(row[1])))

RECURSIVE RestVal(_, _)
\* d[key] = restval (None) for every field name the row has no value for
RestVal(names, kv) ==
    IF names = <<>> THEN kv
    ELSE RestVal(Tail(names), DictSet(kv, VStr(names[1]), VNone))

\* DictReader.__next__ for one non-blank row: a longer row keeps its extra
\* values under the key None (restkey), a shorter one gets None values
RowDict(fieldnames, row) ==
    LET lf == Len(fieldnames)
        lr == Len(row)
        d  == ZipDict(fieldnames, row, <<>>)
    IN  VDict(IF lf < lr
              THEN DictSet(d, VNone,
                           VList([i \in 1..(lr - lf) |-> VStr(row[lf + i])]))
              ELSE IF lf > lr
              THEN RestVal(SubSeq(fieldnames, lr + 1, lf), d)
              ELSE d)

RECURSIVE DropBlank(_)
\* the rows DictReader does not skip: those that are not []
DropBlank(rows) ==
    IF rows = <<>> THEN <<>>
    ELSE IF rows[1] = <<>> THEN DropBlank(Tail(rows))
    ELSE <<rows[1]>> \o DropBlank(Tail(rows))

\* [row for row in csv.DictReader(infile)]: the first row read, blank or
\* not, is the field names; every later non-blank row is one dict
CsvRecords(text) ==
    LET rows == CsvRows(text)
    IN  IF rows = <<>> THEN VList(<<>>)
        ELSE LET data == DropBlank(Tail(rows))
             IN  VList([i \in 1..Len(data) |-> RowDict(rows[1], data[i])])

read_csv(disk) == Returned(CsvRecords(disk.content), disk)

\* read_text: the content as one str
read_text(disk) == Returned(VStr(disk.content), disk)

(***************************************************************************)
(* write_ini: configparser.ConfigParser                                    *)
(***************************************************************************)
RECURSIVE IniSectionError(_)
\* ini.set(section, key, str(value)) over one section's items: an option
\* name that is not a str raises TypeError
IniSectionError(items) ==
    IF items = <<>> THEN "ok"
    ELSE IF items[1][1].t # "str" THEN "TypeError"
    ELSE IniSectionError(Tail(items))

RECURSIVE IniLoopError(_)
\* the loop that fills the parser, all of it before the file is opened:
\* add_section raises TypeError for a section name that is not a str, and
\* section_dict.items() raises AttributeError for a section that is no dict
IniLoopError(sections) ==
    IF sections = <<>> THEN "ok"
    ELSE IF sections[1][1].t # "str" THEN "TypeError"
    ELSE IF sections[1][2].t # "dict" THEN "AttributeError"
    ELSE IF IniSectionError(sections[1][2].kv) # "ok"
    THEN IniSectionError(sections[1][2].kv)
    ELSE IniLoopError(Tail(sections))

\* the assertion, then the loop: "ok" or the exception
IniShapeError(fdata) ==
    IF fdata.t # "dict" THEN "AssertionError" ELSE IniLoopError(fdata.kv)

RECURSIVE IniOptions(_, _)
\* the options of one section as the parser holds them: each key passed
\* through optionxform (lower-cased), each value str(value)
IniOptions(items, kv) ==
    IF items = <<>> THEN kv
    ELSE IniOptions(Tail(items),
                    DictSet(kv, Lower(items[1][1].s), PyStr(items[1][2])))

\* ini.write(outfile) for one section: "[name]", one "key = value" line per
\* option, then a blank line
IniSectionText(name, items) ==
    LET opts == IniOptions(items, <<>>)
    IN  <<"[">> \o name \o <<"]", NL>>
        \o Flatten([i \in 1..Len(opts) |->
                       opts[i][1] \o <<" ", "=", " ">> \o opts[i][2] \o <<NL>>])
        \o <<NL>>

IniText(fdata) ==
    Flatten([i \in 1..Len(fdata.kv) |->
                IniSectionText(fdata.kv[i][1].s, fdata.kv[i][2].kv)])

write_ini(disk, fdata) ==
    IF IniShapeError(fdata) # "ok" THEN Raised(IniShapeError(fdata), FALSE, disk)
    ELSE OpenAndWrite(disk, IniText(fdata))

(***************************************************************************)
(* write_json: json.dump(fdata, outfile, indent=2)                         *)
(***************************************************************************)
Spaces(n) == [i \in 1..n |-> " "]

\* a JSON string: the quote character and the backslash are escaped
JsonString(s) ==
    <<QUOTE>> \o Flatten([i \in 1..Len(s) |->
                             IF s[i] \in {QUOTE, "\\"} THEN <<"\\", s[i]>>
                             ELSE <<s[i]>>])
              \o <<QUOTE>>

\* an object key: a str as it is, an int or None as the text of its JSON form
JsonKey(k) ==
    CASE k.t = "str"  -> JsonString(k.s)
      [] k.t = "int"  -> JsonString(IntStr(k.n))
      [] k.t = "none" -> JsonString(<<"n","u","l","l">>)

RECURSIVE JsonDump(_, _)
\* the JSON text of v at nesting depth level: an empty list or dict on one
\* line, a non-empty one with one item per line, indented two spaces per
\* level, items separated by a comma at the end of the line
JsonDump(v, level) ==
    LET inner == <<NL>> \o Spaces(2 * (level + 1))
        outer == <<NL>> \o Spaces(2 * level)
    IN
    CASE v.t = "none" -> <<"n","u","l","l">>
      [] v.t = "int"  -> IntStr(v.n)
      [] v.t = "str"  -> JsonString(v.s)
      [] v.t = "list" ->
            IF v.xs = <<>> THEN <<"[", "]">>
            ELSE <<"[">> \o inner
                 \o Join([i \in 1..Len(v.xs) |-> JsonDump(v.xs[i], level + 1)],
                         <<COMMA>> \o inner)
                 \o outer \o <<"]">>
      [] v.t = "dict" ->
            IF v.kv = <<>> THEN <<"{", "}">>
            ELSE <<"{">> \o inner
                 \o Join([i \in 1..Len(v.kv) |->
                            JsonKey(v.kv[i][1]) \o <<":", " ">>
                            \o JsonDump(v.kv[i][2], level + 1)],
                         <<COMMA>> \o inner)
                 \o outer \o <<"}">>

write_json(disk, fdata) == OpenAndWrite(disk, JsonDump(fdata, 0))

(***************************************************************************)
(* write_text: outfile.write(str(fdata))                                   *)
(***************************************************************************)
write_text(disk, fdata) == OpenAndWrite(disk, PyStr(fdata))

(***************************************************************************)
(* write_yaml: yaml.dump(fdata, default_flow_style=False)                  *)
(***************************************************************************)
\* the characters of the model's texts in code-point order
Ascii == <<NL, " ", QUOTE, "'", COMMA, "-", ".", "/">> \o Digits
         \o <<":", "=">> \o UpperCase \o <<"[", "\\", "]">> \o LowerCase
         \o <<"{", "}">>

Code(c) == CHOOSE i \in 1..Len(Ascii) : Ascii[i] = c

RECURSIVE TextLess(_, _)
\* s < t for two str values
TextLess(s, t) ==
    IF t = <<>> THEN FALSE
    ELSE IF s = <<>> THEN TRUE
    ELSE IF s[1] # t[1] THEN Code(s[1]) < Code(t[1])
    ELSE TextLess(Tail(s), Tail(t))

RECURSIVE InsertSorted(_, _)
InsertSorted(item, kv) ==
    IF kv = <<>> THEN <<item>>
    ELSE IF TextLess(item[1].s, kv[1][1].s) THEN <<item>> \o kv
    ELSE <<kv[1]>> \o InsertSorted(item, Tail(kv))

RECURSIVE SortedItems(_)
\* the items of a mapping sorted by key, the order the representer emits
SortedItems(kv) ==
    IF kv = <<>> THEN <<>>
    ELSE InsertSorted(kv[1], SortedItems(Tail(kv)))

\* A str is written plain unless it is empty, would be read back as an int
\* (all digits) or starts with an indicator character; then it is written
\* between apostrophes.
YamlNeedsQuote(s) ==
    \/ s = <<>>
    \/ \A i \in 1..Len(s) : \E d \in 1..Len(Digits) : Digits[d] = s[i]
    \/ s[1] \in {QUOTE, COMMA, "[", "]", "{", "}", "'", "-", ":", " "}

YamlScalar(v) ==
    CASE v.t = "none" -> <<"n","u","l","l">>
      [] v.t = "int"  -> IntStr(v.n)
      [] v.t = "str"  -> IF YamlNeedsQuote(v.s) THEN <<"'">> \o v.s \o <<"'">>
                         ELSE v.s

\* a node written on the line of its key or dash: a scalar or an empty
\* collection (an empty collection is always in flow style)
YamlInline(v) ==
    \/ v.t \in {"none", "int", "str"}
    \/ v.t = "list" /\ v.xs = <<>>
    \/ v.t = "dict" /\ v.kv = <<>>

YamlInlineText(v) ==
    CASE v.t = "list" -> <<"[", "]">>
      [] v.t = "dict" -> <<"{", "}">>
      [] OTHER        -> YamlScalar(v)

RECURSIVE YamlLines(_, _)
\* the lines of a non-empty block collection v at indentation n.  A mapping
\* is "key: value" lines, a nested block mapping indented by two and a
\* nested block sequence not indented; a sequence is "- item" lines, a
\* nested collection starting on the line of its dash.
YamlLines(v, n) ==
    IF v.t = "dict"
    THEN LET items == SortedItems(v.kv)
         IN  Flatten([i \in 1..Len(items) |->
                LET key == Spaces(n) \o YamlScalar(items[i][1])
                    val == items[i][2]
                IN  IF YamlInline(val)
                    THEN << key \o <<":", " ">> \o YamlInlineText(val) >>
                    ELSE << key \o <<":">> >>
                         \o YamlLines(val, IF val.t = "dict" THEN n + 2 ELSE n)])
    ELSE Flatten([i \in 1..Len(v.xs) |->
                LET item == v.xs[i]
                IN  IF YamlInline(item)
                    THEN << Spaces(n) \o <<"-", " ">> \o YamlInlineText(item) >>
                    ELSE LET sub == YamlLines(item, n + 2)
                         IN  << Spaces(n) \o <<"-", " ">>
                                \o SubSeq(sub[1], n + 3, Len(sub[1])) >>
                             \o Tail(sub)])

\* yaml.dump: a top-level plain scalar is followed by the document end
\* marker, a quoted scalar or a collection is not
YamlDump(v) ==
    IF YamlInline(v)
    THEN YamlInlineText(v) \o <<NL>>
         \o (IF v.t \in {"none", "int"} \/ (v.t = "str" /\ ~YamlNeedsQuote(v.s))
             THEN <<".", ".", ".", NL>> ELSE <<>>)
    ELSE LET lines == YamlLines(v, 0)
         IN  Flatten([i \in 1..Len(lines) |-> lines[i] \o <<NL>>])

write_yaml(disk, fdata) == OpenAndWrite(disk, YamlDump(fdata))

(***************************************************************************)
(* TextFile.read and TextFile.write                                        *)
(***************************************************************************)
\* The ini, json and yaml parsers are not modelled: what such a reader
\* yields (a value, or the parser's exception) is kept as the reader's name
\* and the text it was given.
Parsed(reader, text) == [t |-> "parsed", reader |-> reader, text |-> text]

read_ini(disk)  == Returned(Parsed("read_ini", disk.content), disk)
read_json(disk) == Returned(Parsed("read_json", disk.content), disk)
read_yaml(disk) == Returned(Parsed("read_yaml", disk.content), disk)

\* the reader read() dispatches to, by self.ftype
ReaderOf(ftype) ==
    CASE ftype = CSV            -> "read_csv"
      [] ftype = INI            -> "read_ini"
      [] ftype = JSON           -> "read_json"
      [] ftype \in {TXT, EMPTY} -> "read_text"
      [] ftype = YAML           -> "read_yaml"
      [] OTHER                  -> "none"

RunReader(reader, disk) ==
    CASE reader = "read_csv"  -> read_csv(disk)
      [] reader = "read_ini"  -> read_ini(disk)
      [] reader = "read_json" -> read_json(disk)
      [] reader = "read_text" -> read_text(disk)
      [] reader = "read_yaml" -> read_yaml(disk)
      [] OTHER                -> Returned(VNone, disk)

\* (os.path.exists in place of os.path.isfile)
ReadAllowed_Exists(disk) == disk.kind # "absent"

\* the assertion read() starts with
ReadAllowed(disk) == IsFile(disk)

\* the writer write() dispatches to, by self.ftype; any other format is
\* written as text after a diagnostic
WriterOf(ftype) ==
    CASE ftype = CSV            -> "write_csv"
      [] ftype = INI            -> "write_ini"
      [] ftype = JSON           -> "write_json"
      [] ftype \in {TXT, EMPTY} -> "write_text"
      [] ftype = YAML           -> "write_yaml"
      [] OTHER                  -> "write_text"

KnownFtype(ftype) == ftype \in {CSV, INI, JSON, TXT, EMPTY, YAML}

RunWriter(writer, disk, fdata) ==
    CASE writer = "write_csv"  -> write_csv(disk, fdata)
      [] writer = "write_ini"  -> write_ini(disk, fdata)
      [] writer = "write_json" -> write_json(disk, fdata)
      [] writer = "write_yaml" -> write_yaml(disk, fdata)
      [] OTHER                 -> write_text(disk, fdata)

\* (force not looked at)
NeedsConfirm_IgnoresForce(disk, force) == IsFile(disk)

\* the test write() makes before anything else: ask before overwriting
NeedsConfirm(disk, force) == IsFile(disk) /\ ~force

\* (the empty line taken as a yes)
ReplyKind_DefaultYes(user_says) ==
    IF user_says \in {<<"y">>, <<"Y">>, <<>>} THEN "yes"
    ELSE IF user_says \in {<<"n">>, <<"N">>} THEN "no"
    ELSE "invalid"

\* (a reply judged by its first letter)
ReplyKind_FirstLetter(user_says) ==
    IF user_says = <<>> THEN "no"
    ELSE IF user_says[1] \in {"y", "Y"} THEN "yes"
    ELSE IF user_says[1] \in {"n", "N"} THEN "no"
    ELSE "invalid"

\* confirm_yn_n's reading of one reply
ReplyKind(user_says) ==
    IF user_says \in {<<"y">>, <<"Y">>} THEN "yes"
    ELSE IF user_says \in {<<"n">>, <<"N">>, <<>>} THEN "no"
    ELSE "invalid"

\* what write() returns when the user declines
CancelledSize == VInt(0)

(***************************************************************************)
(* Inputs                                                                  *)
(***************************************************************************)
P_x_csv   == <<"x", ".", "c", "s", "v">>
P_X_CSV   == <<"X", ".", "C", "S", "V">>
P_noext   == <<"n", "o", "e", "x", "t">>
P_x_txt   == <<"x", ".", "t", "x", "t">>
P_x_text  == <<"x", ".", "t", "e", "x", "t">>
P_x_bogus == <<"x", ".", "b", "o", "g", "u", "s">>
P_x_ini   == <<"x", ".", "i", "n", "i">>
P_x_json  == <<"x", ".", "j", "s", "o", "n">>
P_x_yaml  == <<"x", ".", "y", "a", "m", "l">>
P_dotdir  == <<"a", ".", "c", "s", "v", "/", "b">>
P_dotfile == <<".", "i", "n", "i">>

Paths == {P_x_csv, P_X_CSV, P_noext, P_x_txt, P_x_text, P_x_bogus, P_x_ini,
          P_x_json, P_x_yaml, P_dotdir, P_dotfile}

\* the paths read() and write() are run on: one per reader and writer, and
\* one without extension
WorkPaths == {P_x_csv, P_noext, P_x_txt, P_x_ini, P_x_json, P_x_yaml}

\* the ftype argument of the constructor: None or an override
Overrides == {Nothing, Some(CSV), Some(INI), Some(JSON), Some(TXT), Some(TEXT),
              Some(YAML), Some(BOGUS)}

OldText == <<"o", "l", "d">>

\* what the path may hold before the program touches it
InitialDisks == {Absent, Directory, File(<<>>), File(OldText)}

KA == VStr(<<"a">>)
KB == VStr(<<"b">>)
KS == VStr(<<"s">>)
KT == VStr(<<"t">>)

Rec(a, b) == VDict(<< <<KA, a>>, <<KB, b>> >>)
RecA(a) == VDict(<< <<KA, a>> >>)

\* the list of dicts and the dict of dicts of the tests (two columns)
ListOfDicts == VList(<< Rec(VInt(1), VInt(2)), Rec(VInt(11), VInt(12)) >>)
DictOfDicts == VDict(<< <<KS, Rec(VInt(1), VInt(2))>>, <<KT, RecA(VInt(11))>> >>)

\* the payloads write() is called with
Payloads ==
    { VStr(<<>>), VStr(<<"a", "b">>), VInt(7),
      VList(<<>>), VList(<< VInt(1) >>),
      ListOfDicts,
      VList(<< VDict(<<>>) >>),
      VList(<< RecA(VStr(<<>>)) >>),
      VList(<< Rec(VStr(<<"a", COMMA, "b">>), VStr(<<"a", QUOTE>>)) >>),
      VList(<< RecA(VInt(1)), VInt(5) >>),
      VList(<< RecA(VInt(1)), Rec(VInt(2), VInt(3)) >>),
      VList(<< Rec(VInt(1), VInt(2)), RecA(VInt(3)) >>),
      VDict(<<>>), DictOfDicts,
      VDict(<< <<KS, VInt(1)>> >>),
      VDict(<< <<KS, VDict(<<>>)>> >>) }

\* the lines the user may type at the prompt
Replies == {<<"y">>, <<"Y">>, <<"n">>, <<"N">>, <<>>,
            <<"m", "a", "y", "b", "e">>, <<"y", "e", "s">>, <<" ", "y">>}

\* the lines tried at the prompt of a write(): one invalid line suffices
\* there, the loop being the same
WriteReplies == {<<"y">>, <<"Y">>, <<"n">>, <<"N">>, <<>>,
                 <<"m", "a", "y", "b", "e">>}

(***************************************************************************)
(* State                                                                   *)
(***************************************************************************)
VARIABLES
    path,   \* the file name the run is about
    disk,   \* what the file system holds at path
    self,   \* the TextFile object, once constructed
    ctor,   \* the last call of the constructor and how it ended
    call,   \* the current or last call of read, write or confirm_yn_n
            \* since the constructor ran
    pc,     \* "idle", or "raw_input" while confirm_yn_n waits for a line
    origin, \* the write() call whose writer last opened the file at path
    prompt, \* the current or last call of a function of yoots.prompt
    moratorium  \* yoots.moratorium: its globals once the module is loaded,
                \* and the last call of one of its functions

vars == <<path, disk, self, ctor, call, pc, origin, prompt, moratorium>>

\* the variables of the other two modules, which yoots.textfile never touches
others == <<prompt, moratorium>>

NoSelf == [live |-> FALSE, fname |-> <<>>, ftype |-> Nothing]
NoCtor == [called |-> FALSE, ftype |-> Nothing, outcome |-> "none"]

\* A call on self: op is the method, fdata and force its arguments, before the disk
\* when it began, replies the lines raw_input returned, stderr what eprint
\* wrote, confirmed the return value of confirm_yn_n ("none" while there is
\* none), worker the reader or writer dispatched to, opened whether that
\* worker reached its open(), err "running", "ok" or the exception raised,
\* ret the value returned.
NoCall == [op |-> "none", fdata |-> VNone, force |-> FALSE, before |-> Absent,
           replies |-> <<>>, stderr |-> <<>>, confirmed |-> "none",
           worker |-> "none", opened |-> FALSE, err |-> "ok", ret |-> VNone]

\* The file has not been written by the program, or was last opened for
\* writing by worker, called with fdata and force, which ended with err.
NoOrigin == [written |-> FALSE, fdata |-> VNone, force |-> FALSE,
             worker |-> "none", err |-> "ok"]

\* A call of a function of yoots.prompt: op is the function, item_list its
\* argument, pc "raw_input" while it waits for a line, "returned" or "raised"
\* once it ended, replies the lines raw_input returned so far, chosen the
\* local variable of that name, errors the number of ERROR lines written
\* to stderr, err the exception raised, ret the value returned.
NoPrompt == [op |-> "none", item_list |-> <<>>, pc |-> "idle", replies |-> <<>>,
             chosen |-> VNone, errors |-> 0, err |-> "ok", ret |-> VNone]

\* yoots.moratorium before it is imported: no globals, no call
NoMoratorium == [loaded |-> FALSE, this_year |-> 0, holidays |-> <<>>,
                 op |-> "none", dtuple |-> <<>>, end_days |-> 0, ret |-> FALSE]

Init ==
    /\ path \in WorkPaths
    /\ disk \in InitialDisks
    /\ self = NoSelf
    /\ ctor = NoCtor
    /\ call = NoCall
    /\ pc = "idle"
    /\ origin = NoOrigin
    /\ prompt = NoPrompt
    /\ moratorium = NoMoratorium

\* the object TextFile(fname, ftype) yields, if the constructor returns
NewSelf(fname, ftype) ==
    IF InitOutcome(fname, ftype) = "ok"
    THEN [live |-> TRUE, fname |-> fname, ftype |-> FtypeAttr(fname, ftype)]
    ELSE NoSelf

NewCtor(fname, ftype) ==
    [called |-> TRUE, ftype |-> ftype, outcome |-> InitOutcome(fname, ftype)]

\* TextFile(path, ftype)
Construct(ftype) ==
    /\ pc = "idle"
    /\ self' = NewSelf(path, ftype)
    /\ ctor' = NewCtor(path, ftype)
    /\ call' = NoCall
    /\ UNCHANGED <<path, disk, pc, origin>>
    /\ UNCHANGED others

\* write() from the dispatch on: the writer runs, and if it returns, the
\* call returns the size of the file
Dispatched(c, ftype, d) ==
    LET w == RunWriter(WriterOf(ftype), d, c.fdata)
        log == IF KnownFtype(ftype) THEN c.stderr
               ELSE Append(c.stderr, "Unknown filetype")
    IN  [call |-> [c EXCEPT !.worker = WriterOf(ftype), !.stderr = log,
                            !.opened = w.opened, !.err = w.err,
                            !.ret = IF w.err = "ok" THEN VInt(GetSize(w.disk))
                                    ELSE VNone],
         disk |-> w.disk,
         origin |-> IF w.opened /\ IsFile(w.disk)
                    THEN [written |-> TRUE, fdata |-> c.fdata, force |-> c.force,
                          worker |-> WriterOf(ftype), err |-> w.err]
                    ELSE origin]

\* write() when the user declined: nothing is written, 0 is returned
Cancelled(c) ==
    [c EXCEPT !.stderr = Append(@, "Write cancelled"), !.err = "ok",
              !.ret = CancelledSize]

\* the body of write(fdata, force) on an object of format ftype, up to its
\* return or its first raw_input
WriteBody(ftype, fdata, force) ==
    LET c == [NoCall EXCEPT !.op = "write", !.fdata = fdata, !.force = force,
                            !.before = disk, !.err = "running"]
    IN  IF NeedsConfirm(disk, force)
        THEN /\ call' = c
             /\ pc' = "raw_input"
             /\ UNCHANGED <<disk, origin>>
        ELSE LET d == Dispatched(c, ftype, disk)
             IN  /\ call' = d.call
                 /\ disk' = d.disk
                 /\ origin' = d.origin
                 /\ pc' = "idle"

\* self.write(fdata, force)
Write(fdata, force) ==
    /\ pc = "idle"
    /\ self.live
    /\ WriteBody(self.ftype.v, fdata, force)
    /\ UNCHANGED <<path, self, ctor>>
    /\ UNCHANGED others

\* the module's write(fname, fdata, ftype, force): a new object, then its
\* write(); a constructor that raises ends the call
write(fdata, ftype, force) ==
    /\ pc = "idle"
    /\ self' = NewSelf(path, ftype)
    /\ ctor' = NewCtor(path, ftype)
    /\ IF InitOutcome(path, ftype) = "ok"
       THEN WriteBody(FtypeAttr(path, ftype).v, fdata, force)
       ELSE /\ call' = NoCall
            /\ UNCHANGED <<disk, pc, origin>>
    /\ UNCHANGED path
    /\ UNCHANGED others

\* TextFile.confirm_yn_n() called on its own
Confirm ==
    /\ pc = "idle"
    /\ call' = [NoCall EXCEPT !.op = "confirm_yn_n", !.err = "running"]
    /\ pc' = "raw_input"
    /\ UNCHANGED <<path, disk, self, ctor, origin>>
    /\ UNCHANGED others

\* raw_input returns user_says inside confirm_yn_n: an invalid line is
\* answered on stderr and the loop reads again; y or Y returns True, n, N or
\* the empty line returns False, and a write() that called goes on from there
Reply(user_says) ==
    /\ pc = "raw_input"
    /\ Len(call.replies) < MaxReplies
    /\ LET c == [call EXCEPT !.replies = Append(@, user_says)]
           kind == ReplyKind(user_says)
       IN  IF kind = "invalid"
           THEN /\ call' = [c EXCEPT !.stderr = Append(@, "Invalid input")]
                /\ UNCHANGED <<disk, pc, origin>>
           ELSE LET r == [c EXCEPT !.confirmed =
                                      IF kind = "yes" THEN "True" ELSE "False"]
                IN  /\ pc' = "idle"
                    /\ IF r.op = "confirm_yn_n"
                       THEN /\ call' = [r EXCEPT !.err = "ok"]
                            /\ UNCHANGED <<disk, origin>>
                       ELSE IF kind = "yes"
                       THEN LET o == [r EXCEPT !.stderr =
                                                  Append(@, "Overwriting file")]
                                d == Dispatched(o, self.ftype.v, disk)
                            IN  /\ call' = d.call
                                /\ disk' = d.disk
                                /\ origin' = d.origin
                       ELSE /\ call' = Cancelled(r)
                            /\ UNCHANGED <<disk, origin>>
    /\ UNCHANGED <<path, self, ctor>>
    /\ UNCHANGED others

\* the body of read() on an object of format ftype: the assertion that the
\* path is a file, then the reader
ReadBody(ftype) ==
    LET c == [NoCall EXCEPT !.op = "read", !.before = disk]
    IN  IF ~ReadAllowed(disk)
        THEN call' = [c EXCEPT !.err = "AssertionError"]
        ELSE LET r == RunReader(ReaderOf(ftype), disk)
             IN  call' = [c EXCEPT !.worker = ReaderOf(ftype), !.opened = r.opened,
                                   !.err = r.err, !.ret = r.value]

\* self.read()
Read ==
    /\ pc = "idle"
    /\ self.live
    /\ ReadBody(self.ftype.v)
    /\ UNCHANGED <<path, disk, self, ctor, pc, origin>>
    /\ UNCHANGED others

\* the module's read(fname, ftype): a new object, then its read()
read(ftype) ==
    /\ pc = "idle"
    /\ self' = NewSelf(path, ftype)
    /\ ctor' = NewCtor(path, ftype)
    /\ IF InitOutcome(path, ftype) = "ok"
       THEN ReadBody(FtypeAttr(path, ftype).v)
       ELSE call' = NoCall
    /\ UNCHANGED <<path, disk, pc, origin>>
    /\ UNCHANGED others

\* nothing has been done yet
FirstUse == ~ctor.called /\ call = NoCall

\* no method of the object has been called yet
Unused == call = NoCall

Next ==
    \/ \E ftype \in Overrides : Construct(ftype)
    \* (an object is made for one call of read() or write(): a later call is
    \* made on a new object, the object itself never changing)
    \/ Unused /\ \E fdata \in Payloads, force \in BOOLEAN : Write(fdata, force)
    \/ Unused /\ Read
    \* (the module's functions are run as the first thing done to the path)
    \/ /\ FirstUse
       /\ \E fdata \in Payloads, ftype \in Overrides, force \in BOOLEAN :
              write(fdata, ftype, force)
    \/ FirstUse /\ \E ftype \in Overrides : read(ftype)
    \* (a static method that touches neither the object nor the file: it is
    \* run on its own before any object is made)
    \/ ~ctor.called /\ Confirm
    \/ \E user_says \in (IF call.op = "write" THEN WriteReplies ELSE Replies) :
            Reply(user_says)

Spec == Init /\ [][Next]_vars

\* Construction alone, over every path and every override
CtorInit ==
    /\ path \in Paths
    /\ disk \in InitialDisks
    /\ self = NoSelf
    /\ ctor = NoCtor
    /\ call = NoCall
    /\ pc = "idle"
    /\ origin = NoOrigin
    /\ prompt = NoPrompt
    /\ moratorium = NoMoratorium

CtorNext == \E ftype \in Overrides : Construct(ftype)

CtorSpec == CtorInit /\ [][CtorNext]_vars

(***************************************************************************)
(* Properties                                                              *)
(***************************************************************************)
Last(s) == s[Len(s)]

YesReplies == {<<"y">>, <<"Y">>}
NoReplies == {<<"n">>, <<"N">>, <<>>}

\* write() was called on an existing file without force
AskedWrite == call.op = "write" /\ IsFile(call.before) /\ ~call.force

\* ... and the first reply that is y, Y, n, N or empty has been given
Declined ==
    AskedWrite /\ call.replies # <<>> /\ Last(call.replies) \in NoReplies
Accepted ==
    AskedWrite /\ call.replies # <<>> /\ Last(call.replies) \in YesReplies

\* C1: whatever the format and the payload, a write() on an existing file,
\* without force, that the user declines (n, N or the empty line) returns 0
\* and leaves the file as it was.
C1_DeclineKeepsFile ==
    Declined => /\ pc = "idle"
                /\ call.err = "ok"
                /\ call.ret = VInt(0)
                /\ disk = call.before

\* a csv write of the list of dicts over the old file, declined with the
\* empty line after an invalid reply
C1_Witness ==
    /\ Declined
    /\ self.ftype.v = CSV
    /\ call.fdata = ListOfDicts
    /\ call.replies = << <<"m", "a", "y", "b", "e">>, <<>> >>
    /\ disk = File(OldText)
    /\ call.ret = VInt(0)

\* the data a format's writer takes without raising
WellFormed(ftype, v) ==
    CASE ftype = CSV ->
            /\ v.t = "list"
            /\ v.xs # <<>>
            /\ \A i \in 1..Len(v.xs) :
                  /\ v.xs[i].t = "dict"
                  /\ \A j \in 1..Len(v.xs[i].kv) :
                        HasKey(v.xs[1].kv, v.xs[i].kv[j][1])
      [] ftype = INI ->
            /\ v.t = "dict"
            /\ \A i \in 1..Len(v.kv) :
                  /\ v.kv[i][1].t = "str"
                  /\ v.kv[i][2].t = "dict"
                  /\ \A j \in 1..Len(v.kv[i][2].kv) : v.kv[i][2].kv[j][1].t = "str"
      [] OTHER -> TRUE

\* what the format's writer puts into a file that did not exist
FreshText(ftype, v) == RunWriter(WriterOf(ftype), Absent, v).disk.content

\* C2: a write() on an existing file, without force, that the user accepts
\* (y or Y) replaces the content of the file by the serialisation of the
\* data (nothing of the old content is left) and returns the size of the
\* file, which is more than 0 unless the payload is empty.
C2_AcceptOverwrites ==
    (Accepted /\ WellFormed(self.ftype.v, call.fdata)) =>
        /\ pc = "idle"
        /\ call.err = "ok"
        /\ disk = File(FreshText(self.ftype.v, call.fdata))
        /\ call.ret = VInt(Len(disk.content))
        /\ (~IsEmptyValue(call.fdata) => call.ret.n > 0)

\* the list of dicts written as csv over the old file after a Y: the file
\* holds the header and the two rows, 14 bytes
C2_Witness ==
    /\ Accepted
    /\ self.ftype.v = CSV
    /\ call.fdata = ListOfDicts
    /\ call.before = File(OldText)
    /\ Last(call.replies) = <<"Y">>
    /\ disk.content = <<"a", ",", "b", NL, "1", ",", "2", NL,
                        "1", "1", ",", "1", "2", NL>>
    /\ call.ret = VInt(14)

\* confirm_yn_n has been entered
InConfirm == pc = "raw_input" \/ call.replies # <<>>

InvalidReplies(rs) == {i \in 1..Len(rs) : rs[i] \notin YesReplies \cup NoReplies}

\* C3: confirm_yn_n answers every reply other than y, Y, n, N and the empty
\* line with the "Invalid input" diagnostic and reads again; it has not
\* returned while only such replies were given, it reads nothing after the
\* first reply of the set, and it returns True for y or Y and False for n, N
\* or the empty line.
C3_ConfirmLoop ==
    InConfirm =>
        LET rs == call.replies IN
        /\ \A i \in 1..(Len(rs) - 1) : i \in InvalidReplies(rs)
        /\ Cardinality({i \in 1..Len(call.stderr) :
                           call.stderr[i] = "Invalid input"})
              = Cardinality(InvalidReplies(rs))
        /\ (InvalidReplies(rs) = 1..Len(rs)) =>
              (pc = "raw_input" /\ call.confirmed = "none")
        /\ (rs # <<>> /\ Last(rs) \in YesReplies) =>
              (pc = "idle" /\ call.confirmed = "True")
        /\ (rs # <<>> /\ Last(rs) \in NoReplies) =>
              (pc = "idle" /\ call.confirmed = "False")

\* "maybe", then "yes", then the empty line: two diagnostics, then False
C3_Witness ==
    /\ call.op = "confirm_yn_n"
    /\ call.replies = << <<"m", "a", "y", "b", "e">>, <<"y", "e", "s">>, <<>> >>
    /\ call.stderr = <<"Invalid input", "Invalid input">>
    /\ call.confirmed = "False"
    /\ pc = "idle"

\* C4: write() reads user input exactly when the path is an existing file
\* and force is false; with force, or with no file at the path, it goes to
\* the format's writer without reading anything.
C4_PromptIffFileAndNoForce ==
    call.op = "write" =>
        /\ InConfirm <=> (IsFile(call.before) /\ ~call.force)
        /\ ~(IsFile(call.before) /\ ~call.force) =>
              /\ pc = "idle"
              /\ call.replies = <<>>
              /\ call.worker = WriterOf(self.ftype.v)

\* a forced json write over the old file: no reply read, the writer run
C4_Witness ==
    /\ call.op = "write"
    /\ call.force
    /\ call.before = File(OldText)
    /\ call.replies = <<>>
    /\ call.worker = "write_json"
    /\ call.err = "ok"
    /\ disk # call.before

\* C5: an override given to the constructor is the format of the object
\* whatever the extension: a supported override makes the object, with that
\* format, and "bogus" fails the constructor's assertion.
C5_OverrideDecides ==
    (ctor.called /\ ctor.ftype.some) =>
        /\ ctor.ftype.v \in {CSV, INI, JSON, TXT, YAML} =>
              (ctor.outcome = "ok" /\ self.live /\ self.ftype = ctor.ftype)
        /\ ctor.ftype.v = BOGUS => ctor.outcome = "AssertionError"

\* the extension a path has: the text after the last dot of its last
\* component, a leading dot of the component not counting
ExtensionOf(p) ==
    CASE p = P_x_csv   -> CSV
      [] p = P_X_CSV   -> <<"C", "S", "V">>
      [] p = P_noext   -> EMPTY
      [] p = P_x_txt   -> TXT
      [] p = P_x_text  -> TEXT
      [] p = P_x_bogus -> BOGUS
      [] p = P_x_ini   -> INI
      [] p = P_x_json  -> JSON
      [] p = P_x_yaml  -> YAML
      [] p = P_dotdir  -> EMPTY
      [] p = P_dotfile -> EMPTY

\* C6 as stated: with no override the constructor succeeds exactly when the
\* lower-cased extension is one of csv, ini, json, text, yaml or empty.
C6_AsStated ==
    (ctor.called /\ ~ctor.ftype.some) =>
        /\ ctor.outcome = "ok" <=>
              Lower(ExtensionOf(path)) \in {CSV, INI, JSON, TEXT, YAML, EMPTY}
        /\ ctor.outcome = "ok" => self.ftype = Some(Lower(ExtensionOf(path)))

\* C6, amended: with no override the format is the lower-cased extension
\* (the empty text for a path without one, which read and write take as
\* plain text); the constructor succeeds exactly when that is one of csv,
\* ini, json, txt, yaml or empty, and fails its assertion otherwise.
C6_ExtensionDecides ==
    (ctor.called /\ ~ctor.ftype.some) =>
        LET ext == Lower(ExtensionOf(path)) IN
        /\ ctor.outcome = "ok" <=> ext \in {CSV, INI, JSON, TXT, YAML, EMPTY}
        /\ ctor.outcome = "ok" =>
              /\ self.live
              /\ self.ftype = Some(ext)
              /\ ext = EMPTY => /\ WriterOf(self.ftype.v) = "write_text"
                                /\ ReaderOf(self.ftype.v) = "read_text"
        /\ ctor.outcome # "ok" => (ctor.outcome = "AssertionError" /\ ~self.live)

\* "X.CSV" made into a csv object
C6_Witness ==
    /\ ctor.called
    /\ ~ctor.ftype.some
    /\ path = P_X_CSV
    /\ ctor.outcome = "ok"
    /\ self.ftype = Some(CSV)

\* C7: read() on a path that is no regular file fails its assertion, with
\* no reader run and nothing returned, whatever the format.
C7_ReadNeedsFile ==
    (call.op = "read" /\ ~IsFile(call.before)) =>
        /\ call.err = "AssertionError"
        /\ call.worker = "none"
        /\ ~call.opened
        /\ call.ret = VNone

\* a yaml read of a directory
C7_Witness ==
    /\ call.op = "read"
    /\ call.before = Directory
    /\ self.ftype.v = YAML
    /\ call.err = "AssertionError"

\* data that is not a list, is an empty list, or does not start with a dict
NotListOfDicts(v) == v.t # "list" \/ v.xs = <<>> \/ v.xs[1].t # "dict"

\* C8: a csv write of data that is not a sequence, is empty, or does not
\* start with a mapping fails with the writer's type error (its assertion)
\* and no other error.
C8_CsvShapeError ==
    (call.op = "write" /\ call.worker = "write_csv" /\ NotListOfDicts(call.fdata))
        => call.err = "AssertionError"

\* a non-empty list of dicts that all have the keys of the first
SameKeys(v) ==
    /\ v.t = "list"
    /\ v.xs # <<>>
    /\ \A i \in 1..Len(v.xs) :
          /\ v.xs[i].t = "dict"
          /\ Len(v.xs[i].kv) = Len(v.xs[1].kv)
          /\ \A j \in 1..Len(v.xs[i].kv) : HasKey(v.xs[1].kv, v.xs[i].kv[j][1])

\* the records with every value replaced by its str(), the columns in the
\* order of the first record's keys
Stringified(v) ==
    LET keys == DictKeys(v.xs[1])
    IN  VList([i \in 1..Len(v.xs) |->
                  VDict([j \in 1..Len(keys) |->
                            <<keys[j],
                              VStr(PyStr(DictGet(v.xs[i].kv, keys[j], VNone)))>>])])

\* C9: a csv read of a file that a forced csv write of records sharing their
\* keys has written returns one record per record written, in order, with
\* the same columns and the str() of each value.
C9_CsvRoundTrip ==
    ( /\ call.op = "read"
      /\ call.worker = "read_csv"
      /\ origin.written
      /\ origin.worker = "write_csv"
      /\ origin.force
      /\ SameKeys(origin.fdata) )
    => /\ call.err = "ok"
       /\ call.ret = Stringified(origin.fdata)

\* the shapes the claim names: csv data that is no list or does not start
\* with a dict, ini data that is no dict or has a section that is no dict
WrongShape(worker, v) ==
    \/ /\ worker = "write_csv"
       /\ (v.t # "list" \/ (v.xs # <<>> /\ v.xs[1].t # "dict"))
    \/ /\ worker = "write_ini"
       /\ (v.t # "dict" \/ \E i \in 1..Len(v.kv) : v.kv[i][2].t # "dict")

\* C10: a csv or ini write rejected for the shape of its data does not open
\* the file: a file that exists keeps its content, also when the user
\* accepted the overwrite or force was given, and a path that does not
\* exist still does not.
C10_RejectedWriteKeepsFile ==
    (call.op = "write" /\ pc = "idle" /\ call.worker \in {"write_csv", "write_ini"}
       /\ WrongShape(call.worker, call.fdata))
    => /\ call.err \notin {"ok", "running"}
       /\ ~call.opened
       /\ disk = call.before

\* the int 7 given to a csv write over the old file, after the user said y
C10_Witness ==
    /\ Accepted
    /\ call.worker = "write_csv"
    /\ call.fdata = VInt(7)
    /\ call.err = "AssertionError"
    /\ disk = File(OldText)

(***************************************************************************)
(* yoots.prompt: confirm_yn, pick_one, pick_many                           *)
(*                                                                         *)
(* Each function is a loop around raw_input.  A call is followed from its  *)
(* start through every line the user types, to its return or to the        *)
(* exception that ends it.                                                 *)
(***************************************************************************)
VBool(b) == [t |-> "bool", b |-> b]

\* bool(v), which is what "not v" and "while not v" test
Truthy(v) ==
    CASE v.t = "none" -> FALSE
      [] v.t = "bool" -> v.b
      [] v.t = "int"  -> v.n # 0
      [] v.t = "str"  -> v.s # <<>>
      [] v.t = "list" -> v.xs # <<>>
      [] v.t = "dict" -> v.kv # <<>>

\* the characters str.strip() removes, of those the model types
Whitespace == {" ", "\t"}

\* str.strip(): drops every leading and trailing whitespace character
Strip(s) ==
    IF \A i \in 1..Len(s) : s[i] \in Whitespace
    THEN <<>>
    ELSE LET first == CHOOSE i \in 1..Len(s) :
                          s[i] \notin Whitespace
                          /\ \A j \in 1..(i-1) : s[j] \in Whitespace
             last  == CHOOSE i \in 1..Len(s) :
                          s[i] \notin Whitespace
                          /\ \A j \in (i+1)..Len(s) : s[j] \in Whitespace
         IN  SubSeq(s, first, last)

\* sub in s
Contains(s, sub) ==
    \E i \in 1..(Len(s) - Len(sub) + 1) : SubSeq(s, i, i + Len(sub) - 1) = sub

RECURSIVE Split(_, _)
\* s.split(c) for a one-character separator: the pieces between every two
\* occurrences of c, empty pieces included; one empty piece for the empty s
Split(s, c) ==
    IF \E i \in 1..Len(s) : s[i] = c
    THEN LET i == CHOOSE i \in 1..Len(s) : s[i] = c /\ \A j \in 1..(i-1) : s[j] # c
         IN  <<SubSeq(s, 1, i - 1)>> \o Split(SubSeq(s, i + 1, Len(s)), c)
    ELSE <<s>>

\* confirm_yn's table of replies
valid_replies == [y |-> TRUE, n |-> FALSE]

\* One turn of confirm_yn's loop, raw_input having returned line: the line
\* is stripped and its first character taken, which raises IndexError when
\* nothing is left of the line; a y or n (either case) ends the loop with
\* the table's value, anything else is answered with an ERROR line.
confirm_yn(p, line) ==
    LET stripped == Strip(line)
        q == [p EXCEPT !.replies = Append(@, line)]
    IN  IF stripped = <<>>
        THEN [q EXCEPT !.pc = "raised", !.err = "IndexError"]
        ELSE LET reply == LowerChar(stripped[1])
             IN  IF reply \in DOMAIN valid_replies
                 THEN [q EXCEPT !.pc = "returned",
                                !.ret = VBool(valid_replies[reply])]
                 ELSE [q EXCEPT !.errors = @ + 1]

\* the OrderedDict both pick functions build: str(x+1) -> item, in list order
options(item_list) ==
    [x \in 1..Len(item_list) |-> <<IntStr(x), item_list[x]>>]

\* One turn of pick_one's loop: chosen = options.get(stripped line); a
\* chosen that is not truthy is answered with an ERROR line and the loop
\* goes on, a truthy one is returned.
pick_one(p, line) ==
    LET user_num == Strip(line)
        chosen == DictGet(options(p.item_list), user_num, VNone)
        q == [p EXCEPT !.replies = Append(@, line), !.chosen = chosen]
    IN  IF ~Truthy(chosen)
        THEN [q EXCEPT !.errors = @ + 1]
        ELSE [q EXCEPT !.pc = "returned", !.ret = chosen]

RECURSIVE Select(_, _, _)
\* pick_many's for-loop over the typed tokens: each token's item is appended
\* to chosen; a token whose options.get() is None empties chosen and breaks
Select(opts, selections, chosen) ==
    IF selections = <<>> THEN chosen
    ELSE LET item == DictGet(opts, selections[1], VNone)
         IN  IF item = VNone THEN <<>>
             ELSE Select(opts, Tail(selections), Append(chosen, item))

ALL == <<"a", "l", "l">>
NONE == <<"n", "o", "n", "e">>

\* One turn of pick_many's loop: the line is lower-cased, not stripped; 'all'
\* in it returns item_list, else 'none' in it returns []; else it is split
\* at every space and the tokens are looked up; an empty chosen is answered
\* with an ERROR line and the loop goes on.
pick_many(p, line) ==
    LET user_choice == Lower(line)
        q == [p EXCEPT !.replies = Append(@, line)]
    IN  IF Contains(user_choice, ALL)
        THEN [q EXCEPT !.pc = "returned", !.ret = VList(p.item_list)]
        ELSE IF Contains(user_choice, NONE)
        THEN [q EXCEPT !.pc = "returned", !.ret = VList(<<>>)]
        ELSE LET chosen == Select(options(p.item_list), Split(user_choice, " "),
                                  p.chosen.xs)
             IN  IF chosen = <<>>
                 THEN [q EXCEPT !.chosen = VList(chosen), !.errors = @ + 1]
                 ELSE [q EXCEPT !.chosen = VList(chosen), !.pc = "returned",
                                !.ret = VList(chosen)]

\* the item lists the pick functions are called with: strs as in the tests,
\* a repeated item, and the items Python takes as false
ItemLists ==
    { <<>>, <<KA>>, <<KA, KB, KS>>, <<KB, KB>>,
      <<VInt(0), KA>>, <<VStr(<<>>), KA>>, <<VNone, KA>>, <<KA, VNone>> }

\* the lines typed at confirm_yn's prompt
YnLines ==
    { <<"y">>, <<"Y">>, <<"n">>, <<"N">>, <<>>, <<" ">>, <<" ", "\t">>,
      <<"y", "e", "s">>, <<"N", "o">>, <<" ", "y">>, <<"\t", "n", "o", " ">>,
      <<"m", "a", "y", "b", "e">>, <<"o", "k">>, <<"1">> }

\* the lines typed at pick_one's prompt
OneLines ==
    { <<"1">>, <<"2">>, <<"3">>, <<"4">>, <<"0">>, <<" ", "2", " ">>, <<>>,
      <<"x">>, <<"1", " ", "2">>, <<"0", "1">> }

\* the lines typed at pick_many's prompt
ManyLines ==
    { <<"1">>, <<"2">>, <<"3">>, <<"4">>, <<>>, <<"x">>,
      <<"1", " ", "2">>, <<"2", " ", "1">>, <<"1", " ", "1">>,
      <<"1", " ", "3">>, <<"3", " ", "1">>, <<"1", " ", " ", "2">>,
      <<" ", "1">>, <<"1", " ">>,
      ALL, <<"A", "L", "L">>, NONE, <<"N", "o", "n", "e">>,
      <<"a", "l", "l", " ", "n", "o", "n", "e">>, <<"1", " ", "a", "l", "l">>,
      <<"n", "o", "n", "e", " ", "2">> }

\* confirm_yn(): up to its first raw_input
ConfirmYn ==
    /\ prompt = NoPrompt
    /\ prompt' = [NoPrompt EXCEPT !.op = "confirm_yn", !.pc = "raw_input",
                                  !.chosen = VBool(FALSE)]
    /\ UNCHANGED <<path, disk, self, ctor, call, pc, origin, moratorium>>

\* pick_one(item_list): chosen = None, then into the loop
PickOne(item_list) ==
    /\ prompt = NoPrompt
    /\ prompt' = [NoPrompt EXCEPT !.op = "pick_one", !.item_list = item_list,
                                  !.pc = "raw_input", !.chosen = VNone]
    /\ UNCHANGED <<path, disk, self, ctor, call, pc, origin, moratorium>>

\* pick_many(item_list): chosen = [], then into the loop
PickMany(item_list) ==
    /\ prompt = NoPrompt
    /\ prompt' = [NoPrompt EXCEPT !.op = "pick_many", !.item_list = item_list,
                                  !.pc = "raw_input", !.chosen = VList(<<>>)]
    /\ UNCHANGED <<path, disk, self, ctor, call, pc, origin, moratorium>>

\* the lines typed at the prompt of the function that is running
LinesFor(op) ==
    CASE op = "confirm_yn" -> YnLines
      [] op = "pick_one"   -> OneLines
      [] op = "pick_many"  -> ManyLines
      [] OTHER             -> {}

\* raw_input returns line to the function that waits for it
RawInput(line) ==
    /\ prompt.pc = "raw_input"
    /\ Len(prompt.replies) < MaxReplies
    /\ prompt' = CASE prompt.op = "confirm_yn" -> confirm_yn(prompt, line)
                   [] prompt.op = "pick_one"   -> pick_one(prompt, line)
                   [] prompt.op = "pick_many"  -> pick_many(prompt, line)
    /\ UNCHANGED <<path, disk, self, ctor, call, pc, origin, moratorium>>

PromptInit ==
    /\ path = P_noext
    /\ disk = Absent
    /\ self = NoSelf
    /\ ctor = NoCtor
    /\ call = NoCall
    /\ pc = "idle"
    /\ origin = NoOrigin
    /\ prompt = NoPrompt
    /\ moratorium = NoMoratorium

PromptNext ==
    \/ ConfirmYn
    \/ \E item_list \in ItemLists \ {<<>>} : PickOne(item_list)
    \/ \E item_list \in ItemLists : PickMany(item_list)
    \/ \E line \in LinesFor(prompt.op) : RawInput(line)

PromptSpec == PromptInit /\ [][PromptNext]_vars

(***************************************************************************)
(* Properties of yoots.prompt                                              *)
(***************************************************************************)
\* the number of lines of replies that satisfy Test
Count(lines, Test(_)) ==
    Cardinality({i \in 1..Len(lines) : Test(lines[i])})

\* the first non-blank character of the line is y, Y, n or N
StartsYesNo(line) ==
    Strip(line) # <<>> /\ Strip(line)[1] \in {"y", "Y", "n", "N"}

Bogus(line) == ~StartsYesNo(line)

\* C11: in every call of confirm_yn no error is raised; every reply before
\* the last one read was bogus (an empty or blank line, or one whose first
\* non-blank character is not y/Y/n/N) and each bogus reply was answered with
\* one ERROR line and a new prompt; the call has returned exactly when the
\* last reply starts with y/Y or n/N, with True for y/Y and False for n/N.
C11_ConfirmYnLoop ==
    prompt.op = "confirm_yn" =>
        /\ prompt.pc # "raised"
        /\ \A i \in 1..(Len(prompt.replies) - 1) : Bogus(prompt.replies[i])
        /\ prompt.errors = Count(prompt.replies, Bogus)
        /\ IF prompt.replies # <<>> /\ StartsYesNo(Last(prompt.replies))
           THEN /\ prompt.pc = "returned"
                /\ prompt.ret =
                       VBool(Strip(Last(prompt.replies))[1] \in {"y", "Y"})
           ELSE prompt.pc = "raw_input"

\* the line, stripped, is one of the numbers displayed for the list
IsItemNumber(item_list, line) == HasKey(options(item_list), Strip(line))

\* the item displayed under the number typed
ItemAt(item_list, token) ==
    item_list[CHOOSE k \in 1..Len(item_list) : IntStr(k) = token]

\* C12: in every call of pick_one on a non-empty list, every reply before
\* the last one read was not a displayed number and each such reply was
\* answered with one ERROR line and a new prompt; the call has returned
\* exactly when the last reply is a displayed number k, and then with the
\* k-th item of the list, whatever its value.
C12_PickOneReturnsItem ==
    (prompt.op = "pick_one" /\ prompt.item_list # <<>>) =>
        LET NotNumber(line) == ~IsItemNumber(prompt.item_list, line)
        IN  /\ \A i \in 1..(Len(prompt.replies) - 1) :
                   NotNumber(prompt.replies[i])
            /\ prompt.errors = Count(prompt.replies, NotNumber)
            /\ IF prompt.replies # <<>> /\ ~NotNumber(Last(prompt.replies))
               THEN /\ prompt.pc = "returned"
                    /\ prompt.ret = ItemAt(prompt.item_list,
                                           Strip(Last(prompt.replies)))
               ELSE prompt.pc = "raw_input"

\* How a line typed at pick_many's prompt is to be taken: "all" when it
\* contains 'all', else "none" when it contains 'none' (in either case of
\* the letters), else "numbers" when each of its space-separated tokens is a
\* displayed number, else "invalid".
LineKind(item_list, line) ==
    IF Contains(Lower(line), ALL) THEN "all"
    ELSE IF Contains(Lower(line), NONE) THEN "none"
    ELSE IF \A i \in 1..Len(Split(line, " ")) :
                HasKey(options(item_list), Split(line, " ")[i])
    THEN "numbers"
    ELSE "invalid"

\* the items for the tokens of the line, in the order typed
ItemsTyped(item_list, line) ==
    [i \in 1..Len(Split(line, " ")) |-> ItemAt(item_list, Split(line, " ")[i])]

\* C13: in every call of pick_many, every reply before the last one read
\* was invalid (rejected as a whole); the call has returned exactly when the
\* last reply contains 'all' (the whole list), contains 'none' (the empty
\* list) or consists of displayed numbers only, and then the result is
\* exactly the items for that reply's tokens in the order typed, so that no
\* item of a rejected reply is in it.
C13_PickManySelection ==
    prompt.op = "pick_many" =>
        LET kind(line) == LineKind(prompt.item_list, line)
        IN  /\ \A i \in 1..(Len(prompt.replies) - 1) :
                   kind(prompt.replies[i]) = "invalid"
            /\ IF prompt.replies = <<>> THEN prompt.pc = "raw_input"
               ELSE CASE kind(Last(prompt.replies)) = "all" ->
                            /\ prompt.pc = "returned"
                            /\ prompt.ret = VList(prompt.item_list)
                      [] kind(Last(prompt.replies)) = "none" ->
                            /\ prompt.pc = "returned"
                            /\ prompt.ret = VList(<<>>)
                      [] kind(Last(prompt.replies)) = "numbers" ->
                            /\ prompt.pc = "returned"
                            /\ prompt.ret = VList(ItemsTyped(prompt.item_list,
                                                      Last(prompt.replies)))
                      [] OTHER -> prompt.pc = "raw_input"

(***************************************************************************)
(* yoots.moratorium: the holiday table computed when the module is loaded, *)
(* is_holiday and is_eom                                                   *)
(*                                                                         *)
(* time.strptime and time.strftime are modelled by what they do with the   *)
(* formats the module uses: a date is written as text, parsed back field   *)
(* by field, rejected (ValueError) when it is no day of the calendar, and  *)
(* its day of the year (%j) and day of the week (%A) are computed from the *)
(* proleptic Gregorian calendar.                                           *)
(***************************************************************************)
\* the years the module is loaded in: leap and common years, beginning on
\* every day of the week
FirstYear == 2018
LastYear == 2026

\* the largest end_days window tried, besides windows longer than a month
MaxEndDays == 2

RECURSIVE ParseNat(_)
\* int(text) for a text of digits
ParseNat(text) ==
    IF text = <<>> THEN 0
    ELSE ParseNat(SubSeq(text, 1, Len(text) - 1)) * 10
         + (CHOOSE n \in 0..9 : Digits[n + 1] = text[Len(text)])

IsDigits(text) ==
    text # <<>> /\ \A i \in 1..Len(text) : \E n \in 0..9 : Digits[n + 1] = text[i]

IsLeap(year) == year % 4 = 0 /\ (year % 100 # 0 \/ year % 400 = 0)

DaysInMonth(year, month) ==
    IF month = 2 THEN (IF IsLeap(year) THEN 29 ELSE 28)
    ELSE IF month \in {4, 6, 9, 11} THEN 30 ELSE 31

RECURSIVE DaysBeforeMonth(_, _)
\* the days of the year that precede the first day of the month
DaysBeforeMonth(year, month) ==
    IF month = 1 THEN 0
    ELSE DaysBeforeMonth(year, month - 1) + DaysInMonth(year, month - 1)

\* the days from 0001-01-01 on that precede the first day of the year
DaysBeforeYear(year) ==
    (year - 1) * 365 + ((year - 1) \div 4) - ((year - 1) \div 100)
    + ((year - 1) \div 400)

DayNames == <<"Monday", "Tuesday", "Wednesday", "Thursday", "Friday",
              "Saturday", "Sunday">>

\* time.strptime(text, "%Y<sep>%m<sep>%d"): the struct_time of the date, or
\* Nothing where strptime raises ValueError (a field that is no number of
\* the right width or range, or a day the month does not have).  tm_wday is
\* 0 on a Monday; 0001-01-01 is a Monday.
strptime(text, sep) ==
    LET f == Split(text, sep)
    IN  IF Len(f) # 3 \/ \E i \in 1..3 : ~IsDigits(f[i])
           \/ Len(f[1]) # 4 \/ Len(f[2]) > 2 \/ Len(f[3]) > 2
        THEN Nothing
        ELSE LET year == ParseNat(f[1])
                 month == ParseNat(f[2])
                 day == ParseNat(f[3])
             IN  IF month \notin 1..12 \/ day \notin 1..31
                    \/ day > DaysInMonth(year, month)
                 THEN Nothing
                 ELSE LET yday == DaysBeforeMonth(year, month) + day
                      IN  Some([tm_year |-> year, tm_mon |-> month,
                                tm_mday |-> day,
                                tm_wday |-> (DaysBeforeYear(year) + yday + 6) % 7,
                                tm_yday |-> yday])

\* int(time.strftime("%j", dt))
Julian(dt) == dt.tm_yday

\* time.strftime("%A", dt)
DayName(dt) == DayNames[dt.tm_wday + 1]

\* "{} {} {}".format(year, month, d)
FormatYmd(year, month, d) ==
    IntStr(year) \o <<" ">> \o IntStr(month) \o <<" ">> \o IntStr(d)

\* "{}-MM-DD".format(this_year), with the month and day as they are written
\* in the source
IsoDate(year, mm, dd) == IntStr(year) \o <<"-">> \o mm \o <<"-">> \o dd

\* make_day_julian(isodate)
make_day_julian(isodate) == Julian(strptime(isodate, "-").v)

\* the d of range(1, 32) for which strptime does not raise, in order
MonthDays(year, month) ==
    LET Valid(d) == strptime(FormatYmd(year, month, d), " ").some
    IN  SelectSeq([d \in 1..31 |-> d], Valid)

\* make_month_julian(year, month)
make_month_julian(year, month) ==
    LET days == MonthDays(year, month)
    IN  [i \in 1..Len(days) |->
            Julian(strptime(FormatYmd(year, month, days[i]), " ").v)]

\* seq[i] for a Python index i that is in range: from the end when negative
PyIndex(seq, i) == IF i >= 0 THEN seq[i + 1] ELSE seq[Len(seq) + i + 1]

\* seq[start:]: a negative start counts from the end, and a start before the
\* first element gives the whole sequence
PySliceFrom(seq, start) ==
    LET s == IF start < 0
             THEN (IF Len(seq) + start < 0 THEN 0 ELSE Len(seq) + start)
             ELSE (IF start > Len(seq) THEN Len(seq) ELSE start)
    IN  SubSeq(seq, s + 1, Len(seq))

\* get_nth_day(day_name, n, year, month)
get_nth_day(day_name, n, year, month) ==
    LET days == MonthDays(year, month)
        Named(d) == DayName(strptime(FormatYmd(year, month, d), " ").v) = day_name
        matched == SelectSeq(days, Named)
        days_matched == [i \in 1..Len(matched) |->
                            Julian(strptime(FormatYmd(year, month, matched[i]),
                                            " ").v)]
    IN  IF n = -1 THEN PyIndex(days_matched, -1)
        ELSE PyIndex(days_matched, n - 1)

\* (the Friday entry without its +1)
holidays_FridayIsThursday(this_year) ==
    << <<"New Year's Day", make_day_julian(IsoDate(this_year, <<"0","1">>, <<"0","1">>))>>,
       <<"Martin Luther King Jr Day", get_nth_day("Monday", 3, this_year, 1)>>,
       <<"Presidents Day", get_nth_day("Monday", 3, this_year, 2)>>,
       <<"Memorial Day", get_nth_day("Monday", -1, this_year, 5)>>,
       <<"Independence Day", make_day_julian(IsoDate(this_year, <<"0","7">>, <<"0","4">>))>>,
       <<"Labor Day", get_nth_day("Monday", 1, this_year, 9)>>,
       <<"Thanksgiving", get_nth_day("Thursday", 4, this_year, 11)>>,
       <<"Thanksgiving Friday", get_nth_day("Thursday", 4, this_year, 11)>>,
       <<"Christmas", make_day_julian(IsoDate(this_year, <<"1","2">>, <<"2","5">>))>> >>

\* the holidays dict, as its items <<name, day of the year>> in source order
holidays(this_year) ==
    << <<"New Year's Day", make_day_julian(IsoDate(this_year, <<"0","1">>, <<"0","1">>))>>,
       <<"Martin Luther King Jr Day", get_nth_day("Monday", 3, this_year, 1)>>,
       <<"Presidents Day", get_nth_day("Monday", 3, this_year, 2)>>,
       <<"Memorial Day", get_nth_day("Monday", -1, this_year, 5)>>,
       <<"Independence Day", make_day_julian(IsoDate(this_year, <<"0","7">>, <<"0","4">>))>>,
       <<"Labor Day", get_nth_day("Monday", 1, this_year, 9)>>,
       <<"Thanksgiving", get_nth_day("Thursday", 4, this_year, 11)>>,
       <<"Thanksgiving Friday", get_nth_day("Thursday", 4, this_year, 11) + 1>>,
       <<"Christmas", make_day_julian(IsoDate(this_year, <<"1","2">>, <<"2","5">>))>> >>

\* is_holiday(dtuple), holidays being the module's table
is_holiday(table, dtuple) ==
    LET today == Julian(dtuple)
    IN  \E i \in 1..Len(table) : table[i][2] = today

\* is_eom(dtuple, end_days)
is_eom(dtuple, end_days) ==
    LET today_julian == Julian(dtuple)
        jcal == make_month_julian(dtuple.tm_year, dtuple.tm_mon)
        window == PySliceFrom(jcal, -end_days)
    IN  \E i \in 1..Len(window) : window[i] = today_julian

Years == FirstYear..LastYear

\* the struct_time of every day of the year
DatesOf(year) ==
    UNION { { strptime(FormatYmd(year, month, d), " ").v :
                  d \in 1..DaysInMonth(year, month) } : month \in 1..12 }

\* the windows is_eom is called with: none, short ones, and one as long as
\* the longest month (longer than the others)
EndDays == (0..MaxEndDays) \cup {31}

\* import yoots.moratorium in the year this_year: the globals are computed
Load(this_year) ==
    /\ ~moratorium.loaded
    /\ moratorium' = [NoMoratorium EXCEPT !.loaded = TRUE,
                                          !.this_year = this_year,
                                          !.holidays = holidays(this_year)]
    /\ UNCHANGED <<path, disk, self, ctor, call, pc, origin, prompt>>

\* is_holiday(dtuple)
IsHoliday(dtuple) ==
    /\ moratorium.loaded
    /\ moratorium.op = "none"
    /\ moratorium' = [moratorium EXCEPT !.op = "is_holiday", !.dtuple = dtuple,
                                        !.ret = is_holiday(moratorium.holidays,
                                                           dtuple)]
    /\ UNCHANGED <<path, disk, self, ctor, call, pc, origin, prompt>>

\* is_eom(dtuple, end_days)
IsEom(dtuple, end_days) ==
    /\ moratorium.loaded
    /\ moratorium.op = "none"
    /\ moratorium' = [moratorium EXCEPT !.op = "is_eom", !.dtuple = dtuple,
                                        !.end_days = end_days,
                                        !.ret = is_eom(dtuple, end_days)]
    /\ UNCHANGED <<path, disk, self, ctor, call, pc, origin, prompt>>

MoratoriumInit ==
    /\ path = P_noext
    /\ disk = Absent
    /\ self = NoSelf
    /\ ctor = NoCtor
    /\ call = NoCall
    /\ pc = "idle"
    /\ origin = NoOrigin
    /\ prompt = NoPrompt
    /\ moratorium = NoMoratorium

\* the module is loaded and none of its functions has been called yet
Fresh == moratorium.loaded /\ moratorium.op = "none"

\* (the functions are called on the days of the year the module was loaded
\* in, which is where time.gmtime() puts the default dtuple; one call is
\* followed per load, the functions changing nothing)
MoratoriumNext ==
    \/ ~moratorium.loaded /\ \E this_year \in Years : Load(this_year)
    \/ Fresh /\ \E dtuple \in DatesOf(moratorium.this_year) : IsHoliday(dtuple)
    \/ /\ Fresh
       /\ \E dtuple \in DatesOf(moratorium.this_year), end_days \in EndDays :
              IsEom(dtuple, end_days)

MoratoriumSpec == MoratoriumInit /\ [][MoratoriumNext]_vars

(***************************************************************************)
(* Properties of yoots.moratorium                                          *)
(***************************************************************************)
\* the date is one of the last n calendar days of its month
InLastDays(dtuple, n) ==
    dtuple.tm_mday > DaysInMonth(dtuple.tm_year, dtuple.tm_mon) - n

\* C14: every call is_eom(date, end_days) with end_days >= 0 returns True
\* exactly when the date is one of the last end_days calendar days of its
\* month; in particular it returns False for every date when end_days = 0.
C14_EomLastDays ==
    moratorium.op = "is_eom" =>
        (moratorium.ret <=> InLastDays(moratorium.dtuple, moratorium.end_days))

\* the day-of-year numbers of the table, in source order
TableDays(table) == [i \in 1..Len(table) |-> table[i][2]]

\* the number of named holidays
NamedHolidays == 9

\* C15: for every year the table is computed for, the named holidays map to
\* pairwise distinct day-of-year numbers within 1..365; so is_holiday is
\* true on exactly nine of the days 1..365, each the number of one entry,
\* and every call of is_holiday returns True exactly on those days.
C15_HolidaysDistinct ==
    moratorium.loaded =>
        LET days == TableDays(moratorium.holidays)
        IN  /\ Len(days) = NamedHolidays
            /\ \A i \in 1..Len(days) : days[i] \in 1..365
            /\ \A i, j \in 1..Len(days) : i # j => days[i] # days[j]
            /\ moratorium.op = "none" =>
                  /\ Cardinality({j \in 1..365 :
                         is_holiday(moratorium.holidays, [tm_yday |-> j])})
                     = NamedHolidays
                  /\ \A j \in 1..365 :
                         is_holiday(moratorium.holidays, [tm_yday |-> j])
                         => \E i \in 1..Len(days) : days[i] = j
            /\ moratorium.op = "is_holiday" =>
                  (moratorium.ret <=>
                      \E i \in 1..Len(days) : days[i] = moratorium.dtuple.tm_yday)

\* is_holiday has answered True for the Friday after Thanksgiving of a leap
\* year, the day after the fourth Thursday of November
C15_Witness ==
    /\ moratorium.loaded
    /\ IsLeap(moratorium.this_year)
    /\ moratorium.op = "is_holiday"
    /\ moratorium.ret
    /\ moratorium.dtuple.tm_mon = 11
    /\ DayName(moratorium.dtuple) = "Friday"
    /\ moratorium.dtuple.tm_yday =
           DictGet(moratorium.holidays, "Thanksgiving Friday", 0)
    /\ moratorium.dtuple.tm_yday =
           DictGet(moratorium.holidays, "Thanksgiving", 0) + 1

====
